---- MODULE Spec2Model ----
(***************************************************************************)
(* Lossless batch image merger: the page (src/app/page.tsx) and the merge  *)
(* route (src/app/api/merge/route.ts).                                     *)
(*                                                                         *)
(* The page holds a list of loaded images and the layout options; one      *)
(* merge action lays the images out on a canvas either in the browser      *)
(* (mergeImagesClient) or by posting them to the route (POST), which       *)
(* reads each image's size, resizes, lays out and composites with sharp.   *)
(* Pixels are not modelled: an image is its width and height.              *)
(***************************************************************************)
EXTENDS Integers, Sequences, FiniteSets, TLC

(* ------------------------------ bounds --------------------------------- *)

\* Most images in one batch.
MaxImages == 3
\* Largest natural width and height of an image.
MaxDim == 2
\* Largest grid row and column count set on the page.
MaxGrid == 2
\* Largest resize width and height set on the page.
MaxBox == 2
\* Most images in a request that does not come from the page.
MaxPosted == 2
\* Most images on a page that may hold a very large image.
MaxBatch == 2
\* Most files in one selection, and most images held before it.
MaxSelected == 3
MaxHeld == 1

(* --------------------------- JavaScript values ------------------------- *)

\* A JavaScript value that is undefined, NaN, the empty string or a number.
Undefined == [t |-> "undefined"]
NaN == [t |-> "NaN"]
EmptyString == [t |-> "string"]
Num(n) == [t |-> "number", v |-> n]

\* Truthiness of such a value: `if (targetWidth)`.
Truthy(x) == x.t = "number" /\ x.v # 0

\* A string is a sequence of characters; a form field that is absent (null)
\* is the empty sequence: both are falsy and both parse to NaN.
DigitChars == <<"0", "1", "2", "3", "4", "5", "6", "7", "8", "9">>
IsDigit(c) == \E d \in 1..10 : DigitChars[d] = c
DigitVal(c) == (CHOOSE d \in 1..10 : DigitChars[d] = c) - 1

RECURSIVE ParseDigits(_, _, _)
ParseDigits(s, i, acc) ==
    IF i > Len(s) \/ ~IsDigit(s[i]) THEN acc
    ELSE ParseDigits(s, i + 1, acc * 10 + DigitVal(s[i]))

RECURSIVE SkipSpaces(_, _)
SkipSpaces(s, i) ==
    IF i <= Len(s) /\ s[i] = " " THEN SkipSpaces(s, i + 1) ELSE i

\* parseInt(s): leading blanks, an optional sign, then the longest run of
\* digits; NaN when there is no digit there.
parseInt(s) ==
    LET b == SkipSpaces(s, 1)
        signed == b <= Len(s) /\ s[b] \in {"-", "+"}
        d == IF signed THEN b + 1 ELSE b
    IN  IF d > Len(s) \/ ~IsDigit(s[d]) THEN NaN
        ELSE IF signed /\ s[b] = "-" THEN Num(0 - ParseDigits(s, d, 0))
        ELSE Num(ParseDigits(s, d, 0))

\* `parseInt(x) || dflt`: NaN and 0 are falsy.
OrDefault(x, dflt) == IF Truthy(x) THEN x.v ELSE dflt

RECURSIVE DigitsOf(_)
DigitsOf(n) ==
    IF n < 10 THEN <<DigitChars[n + 1]>>
    ELSE Append(DigitsOf(n \div 10), DigitChars[(n % 10) + 1])

\* Number.prototype.toString() of an integer.
toString(n) == IF n < 0 THEN <<"-">> \o DigitsOf(0 - n) ELSE DigitsOf(n)

(* ------------------------------ arithmetic ----------------------------- *)

RECURSIVE SumTo(_, _)
\* f[1] + ... + f[n], for a sequence of numbers f.
SumTo(f, n) == IF n = 0 THEN 0 ELSE SumTo(f, n - 1) + f[n]

\* reduce((sum, x) => sum + x, 0)
Sum(f) == SumTo(f, Len(f))

\* Math.max(...f) of a non-empty sequence of numbers.
Max(f) == CHOOSE m \in {f[i] : i \in 1..Len(f)} : \A i \in 1..Len(f) : f[i] <= m

Widths(imgs) == [i \in 1..Len(imgs) |-> imgs[i].width]
Heights(imgs) == [i \in 1..Len(imgs) |-> imgs[i].height]

\* a / b rounded to the nearest integer, halves up (a >= 0, b > 0).
Round(a, b) == (2 * a + b) \div (2 * b)

(* ------------------------- sharp: resize ------------------------------- *)

\* sharp's resize() accepts a width or height that is undefined/null or a
\* positive integer and throws on anything else (0, a negative number, NaN).
ValidDimension(x) == x.t = "undefined" \/ (x.t = "number" /\ x.v > 0)

\* The size sharp's resize(width, height, {fit: 'inside', withoutEnlargement})
\* gives an image of size nat. The shrink factor is the fraction p/q: the
\* larger of nat.width/width and nat.height/height over the axes given, raised
\* to 1 when enlargement is refused, and on each axis at most that axis's
\* length, so that no side rounds to zero.
SharpResize(nat, width, height, withoutEnlargement) ==
    LET W == nat.width
        H == nat.height
        hasW == width.t = "number"
        hasH == height.t = "number"
        byW == <<W, IF hasW THEN width.v ELSE 1>>
        byH == <<H, IF hasH THEN height.v ELSE 1>>
        fit == IF hasW /\ hasH
               THEN (IF byW[1] * byH[2] > byH[1] * byW[2] THEN byW ELSE byH)
               ELSE IF hasW THEN byW
               ELSE IF hasH THEN byH
               ELSE <<1, 1>>
        s == IF withoutEnlargement /\ fit[1] < fit[2] THEN <<1, 1>> ELSE fit
        hs == IF s[1] > W * s[2] THEN <<W, 1>> ELSE s
        vs == IF s[1] > H * s[2] THEN <<H, 1>> ELSE s
    IN  [width |-> Round(W * hs[2], hs[1]), height |-> Round(H * vs[2], vs[1])]

(* ----------------------- route.ts: POST, per image --------------------- *)

\* The width and height handed to resize() for a manual resize:
\* `resizeWidth ? parseInt(resizeWidth) : undefined`.
ManualWidth(form) ==
    IF form.resizeWidth # <<>> THEN parseInt(form.resizeWidth) ELSE Undefined
ManualHeight(form) ==
    IF form.resizeHeight # <<>> THEN parseInt(form.resizeHeight) ELSE Undefined

\* `if (resizeWidth || resizeHeight)`: a non-empty string is truthy.
ManualResize(form) == form.resizeWidth # <<>> \/ form.resizeHeight # <<>>

\* Whether processing an image throws: the manual resize is handed a
\* width or height sharp refuses.
ProcessThrows(form) ==
    ManualResize(form)
    /\ ~(ValidDimension(ManualWidth(form)) /\ ValidDimension(ManualHeight(form)))

\* ResizeManual, had the manual resize been allowed to enlarge.
ResizeManualEnlarging(nat, form) ==
    SharpResize(nat, ManualWidth(form), ManualHeight(form), FALSE)

\* The manual resize: fit inside, never enlarging.
ResizeManual(nat, form) ==
    SharpResize(nat, ManualWidth(form), ManualHeight(form), TRUE)

\* ResizeToWidth, had the alignment resize refused to enlarge.
ResizeToWidthNeverEnlarging(nat, targetWidth) ==
    SharpResize(nat, targetWidth, Undefined, TRUE)

\* The alignment resize to the batch's largest width, enlarging.
ResizeToWidth(nat, targetWidth) == SharpResize(nat, targetWidth, Undefined, FALSE)

\* The alignment resize to the batch's largest height, enlarging.
ResizeToHeight(nat, targetHeight) == SharpResize(nat, Undefined, targetHeight, FALSE)

\* ProcessImage, had the alignment been tried before the manual resize.
ProcessImageAlignmentFirst(nat, form, targetWidth, targetHeight) ==
    IF Truthy(targetWidth) THEN SharpResize(nat, targetWidth, Undefined, FALSE)
    ELSE IF Truthy(targetHeight) THEN SharpResize(nat, Undefined, targetHeight, FALSE)
    ELSE IF ManualResize(form)
    THEN SharpResize(nat, ManualWidth(form), ManualHeight(form), TRUE)
    ELSE nat

\* The size of one processed image: the manual resize if a resize width or
\* height is given, else the alignment resize if a target is set, else the
\* image as decoded.
ProcessImage(nat, form, targetWidth, targetHeight) ==
    IF ManualResize(form) THEN ResizeManual(nat, form)
    ELSE IF Truthy(targetWidth) THEN ResizeToWidth(nat, targetWidth)
    ELSE IF Truthy(targetHeight) THEN ResizeToHeight(nat, targetHeight)
    ELSE nat

\* The alignment targets: the largest width, or the largest height, of the
\* decoded images, by alignDimension.
TargetWidth(alignDimension, dims) ==
    IF alignDimension = "width" THEN Num(Max(Widths(dims))) ELSE Undefined
TargetHeight(alignDimension, dims) ==
    IF alignDimension = "width" THEN Undefined
    ELSE IF alignDimension = "height" THEN Num(Max(Heights(dims)))
    ELSE Undefined

(* ----------------------- route.ts: POST, layout ------------------------ *)

\* Math.floor(a / b) and a % b of JavaScript, for a >= 0 and b # 0.
FloorDiv(a, b) == IF b > 0 THEN a \div b ELSE 0 - ((a + (0 - b) - 1) \div (0 - b))
JsRem(a, b) == IF b > 0 THEN a % b ELSE a % (0 - b)

\* ServerCanvas, had the grid's rows and columns been exchanged.
ServerCanvasRowsForCols(alignmentMode, imgs, gridRows, gridCols) ==
    IF alignmentMode = "horizontal"
    THEN [width |-> Sum(Widths(imgs)), height |-> Max(Heights(imgs))]
    ELSE IF alignmentMode = "vertical"
    THEN [width |-> Max(Widths(imgs)), height |-> Sum(Heights(imgs))]
    ELSE IF alignmentMode = "grid"
    THEN [width |-> Max(Widths(imgs)) * gridRows,
          height |-> Max(Heights(imgs)) * gridCols]
    ELSE [width |-> 0, height |-> 0]

\* The canvas the route creates for the processed images.
ServerCanvas(alignmentMode, imgs, gridRows, gridCols) ==
    IF alignmentMode = "horizontal"
    THEN [width |-> Sum(Widths(imgs)), height |-> Max(Heights(imgs))]
    ELSE IF alignmentMode = "vertical"
    THEN [width |-> Max(Widths(imgs)), height |-> Sum(Heights(imgs))]
    ELSE IF alignmentMode = "grid"
    THEN [width |-> Max(Widths(imgs)) * gridCols,
          height |-> Max(Heights(imgs)) * gridRows]
    ELSE [width |-> 0, height |-> 0]

\* sharp({create: {width, height, ...}}) throws unless both are positive.
CreateThrows(canvas) == canvas.width <= 0 \/ canvas.height <= 0

\* ServerCompositeOps, had xOffset advanced before the image was placed.
ServerCompositeOpsAdvanceFirst(alignmentMode, imgs, gridCols) ==
    IF alignmentMode = "horizontal"
    THEN [i \in 1..Len(imgs) |->
            [input |-> imgs[i], left |-> SumTo(Widths(imgs), i), top |-> 0]]
    ELSE IF alignmentMode = "vertical"
    THEN [i \in 1..Len(imgs) |->
            [input |-> imgs[i], left |-> 0, top |-> SumTo(Heights(imgs), i - 1)]]
    ELSE IF alignmentMode = "grid"
    THEN [i \in 1..Len(imgs) |->
            [input |-> imgs[i],
             left |-> JsRem(i - 1, gridCols) * Max(Widths(imgs)),
             top |-> FloorDiv(i - 1, gridCols) * Max(Heights(imgs))]]
    ELSE <<>>

\* ServerCompositeOps, had the grid's row and column been exchanged.
ServerCompositeOpsColumnMajor(alignmentMode, imgs, gridCols) ==
    IF alignmentMode = "horizontal"
    THEN [i \in 1..Len(imgs) |->
            [input |-> imgs[i], left |-> SumTo(Widths(imgs), i - 1), top |-> 0]]
    ELSE IF alignmentMode = "vertical"
    THEN [i \in 1..Len(imgs) |->
            [input |-> imgs[i], left |-> 0, top |-> SumTo(Heights(imgs), i - 1)]]
    ELSE IF alignmentMode = "grid"
    THEN [i \in 1..Len(imgs) |->
            [input |-> imgs[i],
             left |-> FloorDiv(i - 1, gridCols) * Max(Widths(imgs)),
             top |-> JsRem(i - 1, gridCols) * Max(Heights(imgs))]]
    ELSE <<>>

\* The composite operations the route prepares, one per processed image in
\* order (none for an unknown mode). Index i here is index i - 1 of the code.
ServerCompositeOps(alignmentMode, imgs, gridCols) ==
    IF alignmentMode = "horizontal"
    THEN [i \in 1..Len(imgs) |->
            [input |-> imgs[i], left |-> SumTo(Widths(imgs), i - 1), top |-> 0]]
    ELSE IF alignmentMode = "vertical"
    THEN [i \in 1..Len(imgs) |->
            [input |-> imgs[i], left |-> 0, top |-> SumTo(Heights(imgs), i - 1)]]
    ELSE IF alignmentMode = "grid"
    THEN [i \in 1..Len(imgs) |->
            [input |-> imgs[i],
             left |-> JsRem(i - 1, gridCols) * Max(Widths(imgs)),
             top |-> FloorDiv(i - 1, gridCols) * Max(Heights(imgs))]]
    ELSE <<>>

\* sharp's composite refuses an input larger than the canvas on either axis;
\* an input that merely reaches past an edge is clipped without an error.
CompositeThrows(canvas, ops) ==
    \E i \in 1..Len(ops) :
        ops[i].input.width > canvas.width \/ ops[i].input.height > canvas.height

(* -------------------- page.tsx: mergeImagesClient ---------------------- *)

\* ClientCanvas, had the grid's rows and columns been exchanged.
ClientCanvasRowsForCols(alignmentMode, imgs, gridRows, gridCols) ==
    IF alignmentMode = "horizontal"
    THEN [width |-> Sum(Widths(imgs)), height |-> Max(Heights(imgs))]
    ELSE IF alignmentMode = "vertical"
    THEN [width |-> Max(Widths(imgs)), height |-> Sum(Heights(imgs))]
    ELSE [width |-> Max(Widths(imgs)) * gridRows,
          height |-> Max(Heights(imgs)) * gridCols]

\* The canvas size mergeImagesClient computes from the loaded images.
ClientCanvas(alignmentMode, imgs, gridRows, gridCols) ==
    IF alignmentMode = "horizontal"
    THEN [width |-> Sum(Widths(imgs)), height |-> Max(Heights(imgs))]
    ELSE IF alignmentMode = "vertical"
    THEN [width |-> Max(Widths(imgs)), height |-> Sum(Heights(imgs))]
    ELSE [width |-> Max(Widths(imgs)) * gridCols,
          height |-> Max(Heights(imgs)) * gridRows]

\* ClientDraws, had yOffset advanced by the image's width.
ClientDrawsAdvanceByWidth(alignmentMode, imgs, gridCols) ==
    IF alignmentMode = "horizontal"
    THEN [i \in 1..Len(imgs) |->
            [input |-> imgs[i], left |-> SumTo(Widths(imgs), i - 1), top |-> 0]]
    ELSE IF alignmentMode = "vertical"
    THEN [i \in 1..Len(imgs) |->
            [input |-> imgs[i], left |-> 0, top |-> SumTo(Widths(imgs), i - 1)]]
    ELSE [i \in 1..Len(imgs) |->
            [input |-> imgs[i],
             left |-> JsRem(i - 1, gridCols) * Max(Widths(imgs)),
             top |-> FloorDiv(i - 1, gridCols) * Max(Heights(imgs))]]

\* The drawImage calls of mergeImagesClient, one per image in order.
ClientDraws(alignmentMode, imgs, gridCols) ==
    IF alignmentMode = "horizontal"
    THEN [i \in 1..Len(imgs) |->
            [input |-> imgs[i], left |-> SumTo(Widths(imgs), i - 1), top |-> 0]]
    ELSE IF alignmentMode = "vertical"
    THEN [i \in 1..Len(imgs) |->
            [input |-> imgs[i], left |-> 0, top |-> SumTo(Heights(imgs), i - 1)]]
    ELSE [i \in 1..Len(imgs) |->
            [input |-> imgs[i],
             left |-> JsRem(i - 1, gridCols) * Max(Widths(imgs)),
             top |-> FloorDiv(i - 1, gridCols) * Max(Heights(imgs))]]

(* ------------------------------- state --------------------------------- *)

VARIABLES
    \* page.tsx, the state of Home
    images,          \* the loaded images, in selection order
    alignmentMode,   \* "horizontal", "vertical" or "grid"
    gridRows,
    gridCols,
    resizeWidth,     \* a number or ''
    resizeHeight,    \* a number or ''
    alignDimension,  \* "none", "width" or "height"
    mergedImage,     \* null or the URL of the merged image
    isProcessing,
    \* page.tsx, one run of mergeImages
    cpc,             \* where the run is
    canvas,          \* the canvas of mergeImagesClient
    draws,           \* its drawImage calls so far
    alerts,          \* the messages shown with alert()
    \* route.ts, one run of POST
    request,         \* the form data posted
    spc,             \* where the run is
    srv,             \* its local variables
    response,        \* what it returned
    \* page.tsx, one run of handleFileSelect
    files,           \* the files selected: null or a list
    fileIndex,       \* i, the file the loop is at
    newImages,       \* the images loaded so far
    fpc              \* where the run is

selectVars == <<files, fileIndex, newImages, fpc>>
pageVars == <<images, alignmentMode, gridRows, gridCols, resizeWidth,
              resizeHeight, alignDimension, selectVars>>
clientVars == <<mergedImage, isProcessing, cpc, canvas, draws, alerts>>
serverVars == <<request, spc, srv, response>>
vars == <<pageVars, clientVars, serverVars>>

Null == [t |-> "null"]
NoResponse == [status |-> 0]

\* An image is its size after orientation is applied.
ImageSizes == [width : 1..MaxDim, height : 1..MaxDim]
ImageLists == UNION {[1..n -> ImageSizes] : n \in 0..MaxImages}
PostedLists == UNION {[1..n -> ImageSizes] : n \in 0..MaxPosted}

\* An image so large that two of them side by side exceed the canvas area
\* the page allows the browser, while one alone does not.
HugeSize == [width |-> 16384, height |-> 8193]
BatchLists == UNION {[1..n -> ImageSizes \cup {HugeSize}] : n \in 0..MaxBatch}

\* The URL of an image merged earlier.
Earlier == [t |-> "url", by |-> "earlier", width |-> 1, height |-> 1]

\* What the page's number inputs can hold: the grid inputs keep
\* Math.max(1, parseInt(v) || 1), the resize inputs '' or parseInt(v) || ''.
PageGrid == 1..MaxGrid
PageResize == {EmptyString} \cup {Num(n) : n \in (1..MaxBox) \cup {-1}}

\* The form a request holds when no field was ever appended.
EmptyForm ==
    [alignmentMode |-> "", gridRows |-> <<>>, gridCols |-> <<>>,
     resizeWidth |-> <<>>, resizeHeight |-> <<>>, alignDimension |-> "",
     files |-> <<>>]

\* Field values of a request that does not come from the page.
PostedModes == {"horizontal", "vertical", "grid", "diagonal"}
PostedGrid == {<<>>, <<"0">>, <<"-", "1">>}
PostedResize == {<<>>, <<"0">>, <<" ", "1", "x">>}
PostedForms ==
    [alignmentMode : PostedModes, gridRows : PostedGrid, gridCols : PostedGrid,
     resizeWidth : PostedResize, resizeHeight : PostedResize,
     alignDimension : {"none", "width", "height"}, files : PostedLists]

\* The locals of POST before it runs.
srv0 ==
    [gridRows |-> 2, gridCols |-> 2, imageDimensions |-> <<>>,
     targetWidth |-> Undefined, targetHeight |-> Undefined,
     processedImages |-> <<>>, canvasWidth |-> 0, canvasHeight |-> 0,
     compositeOps |-> <<>>, rejected |-> {}]

\* Either the page holds images and options and no request is in flight, or
\* the page is as constructed and the route has received a request posted by
\* another caller.
\* No file selection has been made.
NoSelection ==
    /\ files = Null
    /\ fileIndex = 0
    /\ newImages = <<>>
    /\ fpc = "idle"

Init ==
    /\ NoSelection
    /\ mergedImage = Null
    /\ isProcessing = FALSE
    /\ cpc = "idle"
    /\ canvas = [width |-> 0, height |-> 0]
    /\ draws = <<>>
    /\ alerts = <<>>
    /\ srv = srv0
    /\ response = NoResponse
    /\ \/ /\ images \in ImageLists
          /\ alignmentMode \in {"horizontal", "vertical", "grid"}
          /\ gridRows \in PageGrid
          /\ gridCols \in PageGrid
          /\ resizeWidth \in PageResize
          /\ resizeHeight \in PageResize
          /\ alignDimension \in {"none", "width", "height"}
          /\ request = EmptyForm
          /\ spc = "idle"
       \/ /\ images = <<>>
          /\ alignmentMode = "horizontal"
          /\ gridRows = 2
          /\ gridCols = 2
          /\ resizeWidth = EmptyString
          /\ resizeHeight = EmptyString
          /\ alignDimension = "none"
          /\ request \in PostedForms
          /\ spc = "received"

\* The page holds images, among them possibly very large ones, its options,
\* and possibly the result of an earlier merge; no request is in flight.
PageInit ==
    /\ NoSelection
    /\ images \in BatchLists
    /\ alignmentMode \in {"horizontal", "vertical", "grid"}
    /\ gridRows \in PageGrid
    /\ gridCols \in PageGrid
    /\ resizeWidth \in PageResize
    /\ resizeHeight \in PageResize
    /\ alignDimension \in {"none", "width", "height"}
    /\ mergedImage \in {Null, Earlier}
    /\ isProcessing = FALSE
    /\ cpc = "idle"
    /\ canvas = [width |-> 0, height |-> 0]
    /\ draws = <<>>
    /\ alerts = <<>>
    /\ request = EmptyForm
    /\ spc = "idle"
    /\ srv = srv0
    /\ response = NoResponse

(* --------------------------- route.ts: POST ---------------------------- *)

\* The catch block: status 500 with the error's text.
Caught(details) ==
    [status |-> 500, error |-> "Failed to merge images", details |-> details]

\* SrvReadForm, had the check for an empty file list been left out.
SrvReadFormUnchecked ==
    /\ spc = "received"
    /\ srv' = [srv0 EXCEPT !.gridRows = OrDefault(parseInt(request.gridRows), 2),
                           !.gridCols = OrDefault(parseInt(request.gridCols), 2)]
    /\ response' = response
    /\ spc' = "buffered"
    /\ UNCHANGED <<pageVars, clientVars, request>>

\* Read the form; no files: status 400.
SrvReadForm ==
    /\ spc = "received"
    /\ srv' = [srv0 EXCEPT !.gridRows = OrDefault(parseInt(request.gridRows), 2),
                           !.gridCols = OrDefault(parseInt(request.gridCols), 2)]
    /\ IF Len(request.files) = 0
       THEN /\ response' = [status |-> 400, error |-> "No images provided"]
            /\ spc' = "responded"
       ELSE /\ response' = response
            /\ spc' = "buffered"
    /\ UNCHANGED <<pageVars, clientVars, request>>

\* The files of a list that are not among the rejected ones, in order.
RECURSIVE Decoded(_, _, _)
Decoded(fs, rejected, n) ==
    IF n = 0 THEN <<>>
    ELSE IF n \in rejected THEN Decoded(fs, rejected, n - 1)
    ELSE Append(Decoded(fs, rejected, n - 1), fs[n])

\* SrvDimensions, had a buffer sharp cannot decode been skipped.
SrvDimensionsSkipping ==
    /\ spc = "buffered"
    /\ \E rejected \in SUBSET (1..Len(request.files)) :
        LET dims == Decoded(request.files, rejected, Len(request.files))
        IN  IF dims # <<>>
            THEN /\ srv' = [srv EXCEPT
                        !.rejected = rejected,
                        !.imageDimensions = dims,
                        !.targetWidth = TargetWidth(request.alignDimension, dims),
                        !.targetHeight = TargetHeight(request.alignDimension, dims)]
                 /\ spc' = "dimensions"
                 /\ response' = response
            ELSE /\ response' = Caught("Input buffer contains unsupported image format")
                 /\ spc' = "responded"
                 /\ srv' = [srv EXCEPT !.rejected = rejected]
    /\ UNCHANGED <<pageVars, clientVars, request>>

\* First pass: every image's size, then the alignment target. sharp rejects
\* a buffer that is no image it can decode (srv.rejected: which ones), and
\* one rejection fails the request.
SrvDimensions ==
    /\ spc = "buffered"
    /\ \E rejected \in SUBSET (1..Len(request.files)) :
        IF rejected = {}
        THEN /\ srv' = [srv EXCEPT
                    !.imageDimensions = request.files,
                    !.targetWidth = TargetWidth(request.alignDimension, request.files),
                    !.targetHeight = TargetHeight(request.alignDimension, request.files)]
             /\ spc' = "dimensions"
             /\ response' = response
        ELSE /\ response' = Caught("Input buffer contains unsupported image format")
             /\ spc' = "responded"
             /\ srv' = [srv EXCEPT !.rejected = rejected]
    /\ UNCHANGED <<pageVars, clientVars, request>>

\* Resize every image. Encoding a processed image may fail for want of
\* memory, which fails the request.
SrvProcess ==
    /\ spc = "dimensions"
    /\ IF ProcessThrows(request)
       THEN /\ response' = Caught("Expected positive integer for width or height")
            /\ spc' = "responded"
            /\ srv' = srv
       ELSE \E encoded \in BOOLEAN :
            IF encoded
            THEN /\ srv' = [srv EXCEPT !.processedImages =
                        [i \in 1..Len(srv.imageDimensions) |->
                            ProcessImage(srv.imageDimensions[i], request,
                                         srv.targetWidth, srv.targetHeight)]]
                 /\ spc' = "processed"
                 /\ response' = response
            ELSE /\ response' = Caught("Cannot allocate memory")
                 /\ spc' = "responded"
                 /\ srv' = srv
    /\ UNCHANGED <<pageVars, clientVars, request>>

\* Size the canvas and create it.
SrvCanvas ==
    /\ spc = "processed"
    /\ LET c == ServerCanvas(request.alignmentMode, srv.processedImages,
                             srv.gridRows, srv.gridCols)
       IN  /\ srv' = [srv EXCEPT !.canvasWidth = c.width, !.canvasHeight = c.height]
           /\ IF CreateThrows(c)
              THEN /\ response' = Caught("Expected valid width, height and channels to create a new input image")
                   /\ spc' = "responded"
              ELSE /\ response' = response
                   /\ spc' = "canvas"
    /\ UNCHANGED <<pageVars, clientVars, request>>

\* Place every image, composite, encode and answer with the PNG; the
\* composite or the encoding may fail for want of memory.
SrvComposite ==
    /\ spc = "canvas"
    /\ LET ops == ServerCompositeOps(request.alignmentMode, srv.processedImages,
                                     srv.gridCols)
           c == [width |-> srv.canvasWidth, height |-> srv.canvasHeight]
       IN  /\ srv' = [srv EXCEPT !.compositeOps = ops]
           /\ \E encoded \in BOOLEAN :
                response' =
                    IF CompositeThrows(c, ops)
                    THEN Caught("Image to composite must have same dimensions or smaller")
                    ELSE IF ~encoded THEN Caught("Cannot allocate memory")
                    ELSE [status |-> 200, width |-> c.width, height |-> c.height]
    /\ spc' = "responded"
    /\ UNCHANGED <<pageVars, clientVars, request>>

(* ------------------------ page.tsx: mergeImages ------------------------ *)

\* The form mergeImagesServer builds from the page's state.
PageForm ==
    [alignmentMode |-> alignmentMode,
     gridRows |-> toString(gridRows),
     gridCols |-> toString(gridCols),
     resizeWidth |-> IF resizeWidth # EmptyString THEN toString(resizeWidth.v) ELSE <<>>,
     resizeHeight |-> IF resizeHeight # EmptyString THEN toString(resizeHeight.v) ELSE <<>>,
     alignDimension |-> alignDimension,
     files |-> images]

\* mergeImagesServer up to its fetch: the request is on its way.
PostForm ==
    /\ request' = PageForm
    /\ spc' = "received"
    /\ srv' = srv0
    /\ response' = NoResponse

MAX_CANVAS_AREA == 268435456

\* The canvas size mergeImages expects.
ExpectedCanvas ==
    IF alignmentMode = "horizontal"
    THEN [width |-> Sum(Widths(images)), height |-> Max(Heights(images))]
    ELSE IF alignmentMode = "vertical"
    THEN [width |-> Max(Widths(images)), height |-> Sum(Heights(images))]
    ELSE [width |-> Max(Widths(images)) * gridCols,
          height |-> Max(Heights(images)) * gridRows]

\* needsServerProcessing, had the canvas area not been looked at.
needsServerProcessingAreaIgnored ==
    \/ alignDimension # "none"
    \/ resizeWidth # EmptyString
    \/ resizeHeight # EmptyString

needsServerProcessing ==
    \/ ExpectedCanvas.width * ExpectedCanvas.height > MAX_CANVAS_AREA
    \/ alignDimension # "none"
    \/ resizeWidth # EmptyString
    \/ resizeHeight # EmptyString

\* The merge button: nothing happens without images.
MergeImages ==
    /\ cpc = "idle"
    /\ IF Len(images) = 0
       THEN /\ cpc' = "returned"
            /\ isProcessing' = isProcessing
       ELSE /\ cpc' = "started"
            /\ isProcessing' = TRUE
    /\ UNCHANGED <<pageVars, mergedImage, canvas, draws, alerts, serverVars>>

\* Choose the pipeline: the route, or the browser's canvas.
Dispatch ==
    /\ cpc = "started"
    /\ IF needsServerProcessing
       THEN /\ PostForm
            /\ cpc' = "fetching"
       ELSE /\ cpc' = "client"
            /\ UNCHANGED serverVars
    /\ UNCHANGED <<pageVars, mergedImage, isProcessing, canvas, draws, alerts>>

\* mergeImagesClient. Whether the browser gives a canvas of the size asked
\* for, and whether it renders it, is the browser's; a failure falls back to
\* the route.
MergeImagesClient ==
    /\ cpc = "client"
    /\ LET c == ClientCanvas(alignmentMode, images, gridRows, gridCols)
       IN  \E outcome \in {"ok", "no canvas", "no rendering"} :
            /\ canvas' = IF outcome = "no canvas" THEN [width |-> 0, height |-> 0] ELSE c
            /\ IF outcome = "no canvas" \/ c.width = 0 \/ c.height = 0
               THEN /\ draws' = draws
                    /\ PostForm
                    /\ cpc' = "fetching"
                    /\ UNCHANGED <<mergedImage, isProcessing>>
               ELSE /\ draws' = ClientDraws(alignmentMode, images, gridCols)
                    /\ IF outcome = "no rendering"
                       THEN /\ PostForm
                            /\ cpc' = "fetching"
                            /\ UNCHANGED <<mergedImage, isProcessing>>
                       ELSE /\ mergedImage' = [t |-> "url", by |-> "client",
                                               width |-> c.width, height |-> c.height]
                            /\ isProcessing' = FALSE
                            /\ cpc' = "done"
                            /\ UNCHANGED serverVars
    /\ UNCHANGED <<pageVars, alerts>>

\* ReceiveResponse, had isProcessing been reset after a success only.
ReceiveResponseNoFinally ==
    /\ cpc = "fetching"
    /\ spc = "responded"
    /\ IF response.status = 200
       THEN /\ mergedImage' = [t |-> "url", by |-> "server",
                               width |-> response.width, height |-> response.height]
            /\ alerts' = alerts
            /\ isProcessing' = FALSE
       ELSE /\ alerts' = Append(alerts, response.error)
            /\ mergedImage' = mergedImage
            /\ isProcessing' = isProcessing
    /\ cpc' = "done"
    /\ UNCHANGED <<pageVars, canvas, draws, serverVars>>

\* The route's answer reaches mergeImagesServer: the merged image, or the
\* error, shown with alert() by mergeImages.
ReceiveResponse ==
    /\ cpc = "fetching"
    /\ spc = "responded"
    /\ IF response.status = 200
       THEN /\ mergedImage' = [t |-> "url", by |-> "server",
                               width |-> response.width, height |-> response.height]
            /\ alerts' = alerts
       ELSE /\ alerts' = Append(alerts, response.error)
            /\ mergedImage' = mergedImage
    /\ isProcessing' = FALSE
    /\ cpc' = "done"
    /\ UNCHANGED <<pageVars, canvas, draws, serverVars>>

\* The fetch of mergeImagesServer rejects (the network fails): mergeImages
\* shows the error.
FetchFails ==
    /\ cpc = "fetching"
    /\ alerts' = Append(alerts, "Failed to fetch")
    /\ isProcessing' = FALSE
    /\ cpc' = "done"
    /\ UNCHANGED <<pageVars, mergedImage, canvas, draws, serverVars>>

Next ==
    \/ SrvReadForm
    \/ SrvDimensions
    \/ SrvProcess
    \/ SrvCanvas
    \/ SrvComposite
    \/ MergeImages
    \/ Dispatch
    \/ MergeImagesClient
    \/ ReceiveResponse
    \/ FetchFails

Spec == Init /\ [][Next]_vars

(* ---------------------- page.tsx: handleFileSelect --------------------- *)

\* A selected file: its MIME type, as the parts before and after the slash,
\* and, for the browser's load of it as an image, whether the load succeeds
\* and the size of what it yields.
NotLoadable == [width |-> 0, height |-> 0]
FileKinds ==
    {[type |-> <<"text", "plain">>, loads |-> FALSE, size |-> NotLoadable],
     [type |-> <<"image", "png">>, loads |-> FALSE, size |-> NotLoadable]}
    \cup {[type |-> <<"image", "png">>, loads |-> TRUE, size |-> sz] : sz \in ImageSizes}
\* e.target.files when it is not null.
FileList(fs) == [t |-> "list", items |-> fs]
Selections == {FileList(fs) : fs \in UNION {[1..n -> FileKinds] : n \in 0..MaxSelected}}
HeldLists == UNION {[1..n -> ImageSizes] : n \in 0..MaxHeld}

\* file.type.startsWith('image/')
IsImageType(type) == type[1] = "image"

\* The page as constructed, or holding images already; the user is about to
\* select files, or cancels the file dialog.
InitSelect ==
    /\ images \in HeldLists
    /\ alignmentMode = "horizontal"
    /\ gridRows = 2
    /\ gridCols = 2
    /\ resizeWidth = EmptyString
    /\ resizeHeight = EmptyString
    /\ alignDimension = "none"
    /\ files \in {Null} \cup Selections
    /\ fileIndex = 0
    /\ newImages = <<>>
    /\ fpc = "idle"
    /\ mergedImage = Null
    /\ isProcessing = FALSE
    /\ cpc = "idle"
    /\ canvas = [width |-> 0, height |-> 0]
    /\ draws = <<>>
    /\ alerts = <<>>
    /\ request = EmptyForm
    /\ spc = "idle"
    /\ srv = srv0
    /\ response = NoResponse

selectRest == <<images, alignmentMode, gridRows, gridCols, resizeWidth,
                resizeHeight, alignDimension, clientVars, serverVars>>

\* The change event of the file input: without files nothing happens.
HandleFileSelect ==
    /\ fpc = "idle"
    /\ IF files = Null
       THEN /\ fpc' = "returned"
            /\ UNCHANGED <<fileIndex, newImages>>
       ELSE /\ fpc' = "loop"
            /\ fileIndex' = 1
            /\ newImages' = <<>>
    /\ UNCHANGED <<files, selectRest>>

\* A file that is no image is passed over.
SkipFile ==
    /\ fpc = "loop"
    /\ fileIndex <= Len(files.items)
    /\ ~IsImageType(files.items[fileIndex].type)
    /\ fileIndex' = fileIndex + 1
    /\ UNCHANGED <<files, newImages, fpc, selectRest>>

\* img.onload is set, img.src is set, and the loop awaits the promise that
\* only onload resolves.
StartLoad ==
    /\ fpc = "loop"
    /\ fileIndex <= Len(files.items)
    /\ IsImageType(files.items[fileIndex].type)
    /\ fpc' = "loading"
    /\ UNCHANGED <<files, fileIndex, newImages, selectRest>>

\* The browser loaded the image: the load event resolves the promise and the
\* loop goes on. When the load fails the browser fires the error event,
\* which has no handler: the promise stays pending.
OnLoad ==
    /\ fpc = "loading"
    /\ files.items[fileIndex].loads
    /\ newImages' = Append(newImages, files.items[fileIndex].size)
    /\ fileIndex' = fileIndex + 1
    /\ fpc' = "loop"
    /\ UNCHANGED <<files, selectRest>>

\* After the loop: setImages(prev => [...prev, ...newImages]).
SetImages ==
    /\ fpc = "loop"
    /\ fileIndex > Len(files.items)
    /\ images' = images \o newImages
    /\ fpc' = "done"
    /\ UNCHANGED <<alignmentMode, gridRows, gridCols, resizeWidth, resizeHeight,
                   alignDimension, files, fileIndex, newImages, clientVars, serverVars>>

\* The steps of a selection under way.
SelectStep ==
    \/ SkipFile
    \/ StartLoad
    \/ OnLoad
    \/ SetImages

NextSelect ==
    \/ HandleFileSelect
    \/ SelectStep

\* The page while the user selects files.
SelectSpec == InitSelect /\ [][NextSelect]_vars

\* The page alone, with very large images among the ones it may hold.
PageSpec == PageInit /\ [][Next]_vars

\* Every step of a merge under way is taken in the end: the browser runs the
\* continuation of every await, the route runs on, every fetch settles. The
\* user is not bound to start a merge.
MergeStep ==
    \/ Dispatch
    \/ MergeImagesClient
    \/ SrvReadForm
    \/ SrvDimensions
    \/ SrvProcess
    \/ SrvCanvas
    \/ SrvComposite
    \/ ReceiveResponse
    \/ FetchFails
FairPageSpec == PageSpec /\ WF_vars(MergeStep)

(* ------------------------------ properties ----------------------------- *)

\* The route has placed the images it composites.
ServerPlaced == srv.compositeOps # <<>>

\* mergeImagesClient has drawn the images.
ClientDrawn == draws # <<>>

ServerCanvasSize == [width |-> srv.canvasWidth, height |-> srv.canvasHeight]

\* Images imgs laid out one after another along one axis of canvas c by
\* placements ops, each at offset 0 on the other axis.
IsStrip(imgs, c, ops, along, across, offAlong, offAcross) ==
    /\ Len(ops) = Len(imgs)
    /\ c[along] = Sum([i \in 1..Len(imgs) |-> imgs[i][along]])
    /\ \A i \in 1..Len(imgs) : imgs[i][across] <= c[across]
    /\ \E i \in 1..Len(imgs) : imgs[i][across] = c[across]
    /\ \A i \in 1..Len(ops) :
        /\ ops[i].input = imgs[i]
        /\ ops[i][offAcross] = 0
        /\ ops[i][offAlong] = SumTo([j \in 1..Len(imgs) |-> imgs[j][along]], i - 1)
    /\ ops[1][offAlong] = 0
    /\ \A i \in 1..(Len(ops) - 1) :
        ops[i][offAlong] + imgs[i][along] = ops[i + 1][offAlong]
    /\ ops[Len(ops)][offAlong] + imgs[Len(ops)][along] = c[along]

\* C1: in horizontal mode, on the route and in the browser, the canvas is as
\* wide as all images together and as high as the highest, image i lies at
\* left = the widths of the images before it and top = 0, and consecutive
\* images abut.
C1_HorizontalStrip ==
    /\ (ServerPlaced /\ request.alignmentMode = "horizontal")
        => IsStrip(srv.processedImages, ServerCanvasSize, srv.compositeOps,
                   "width", "height", "left", "top")
    /\ (ClientDrawn /\ alignmentMode = "horizontal")
        => IsStrip(images, canvas, draws, "width", "height", "left", "top")

\* Both pipelines have laid out the same three images of different widths
\* in a row (the browser drew them, failed to render, and the route merged).
C1_Witness ==
    /\ alignmentMode = "horizontal"
    /\ ClientDrawn
    /\ ServerPlaced
    /\ response.status = 200
    /\ Len(images) = 3
    /\ images[1].width # images[2].width
    /\ srv.compositeOps[3].left = images[1].width + images[2].width
    /\ draws[3].left = images[1].width + images[2].width

\* C2: in vertical mode, on the route and in the browser, the canvas is as
\* high as all images together and as wide as the widest, image i lies at
\* top = the heights of the images before it and left = 0, and consecutive
\* images abut.
C2_VerticalStrip ==
    /\ (ServerPlaced /\ request.alignmentMode = "vertical")
        => IsStrip(srv.processedImages, ServerCanvasSize, srv.compositeOps,
                   "height", "width", "top", "left")
    /\ (ClientDrawn /\ alignmentMode = "vertical")
        => IsStrip(images, canvas, draws, "height", "width", "top", "left")

\* Both pipelines have laid out the same three images of different heights
\* in a column.
C2_Witness ==
    /\ alignmentMode = "vertical"
    /\ ClientDrawn
    /\ ServerPlaced
    /\ response.status = 200
    /\ Len(images) = 3
    /\ images[1].height # images[2].height
    /\ srv.compositeOps[3].top = images[1].height + images[2].height
    /\ draws[3].top = images[1].height + images[2].height

\* Images imgs laid out row by row in a rows x cols grid of equal cells.
IsGrid(imgs, c, ops, rows, cols) ==
    \E cellWidth \in 1..c.width, cellHeight \in 1..c.height :
        /\ \A i \in 1..Len(imgs) :
            imgs[i].width <= cellWidth /\ imgs[i].height <= cellHeight
        /\ \E i \in 1..Len(imgs) : imgs[i].width = cellWidth
        /\ \E i \in 1..Len(imgs) : imgs[i].height = cellHeight
        /\ c.width = cellWidth * cols
        /\ c.height = cellHeight * rows
        /\ Len(ops) = Len(imgs)
        /\ \A i \in 1..Len(ops) :
            /\ ops[i].input = imgs[i]
            /\ ops[i].left = ((i - 1) % cols) * cellWidth
            /\ ops[i].top = ((i - 1) \div cols) * cellHeight

\* C3: in grid mode the cell is the largest width by the largest height of
\* the batch, the canvas is cols cells wide and rows cells high, and image i
\* (counted from 0) lies at left = (i mod cols) cells, top = (i div cols)
\* cells.
C3_GridRowMajor ==
    /\ (ServerPlaced /\ request.alignmentMode = "grid")
        => IsGrid(srv.processedImages, ServerCanvasSize, srv.compositeOps,
                  srv.gridRows, srv.gridCols)
    /\ (ClientDrawn /\ alignmentMode = "grid")
        => IsGrid(images, canvas, draws, gridRows, gridCols)

\* Three images of one size in a 2 x 2 grid, on both pipelines: a canvas of
\* two cells by two, the images at (0,0), (cell,0), (0,cell).
C3_Witness ==
    /\ alignmentMode = "grid" /\ gridRows = 2 /\ gridCols = 2
    /\ Len(images) = 3
    /\ \A i \in 1..3 : images[i] = [width |-> 2, height |-> 2]
    /\ ClientDrawn /\ ServerPlaced /\ response.status = 200
    /\ canvas = [width |-> 4, height |-> 4]
    /\ ServerCanvasSize = [width |-> 4, height |-> 4]
    /\ <<draws[1].left, draws[1].top>> = <<0, 0>>
    /\ <<draws[2].left, draws[2].top>> = <<2, 0>>
    /\ <<draws[3].left, draws[3].top>> = <<0, 2>>
    /\ <<srv.compositeOps[3].left, srv.compositeOps[3].top>> = <<0, 2>>

\* Placement op lies inside canvas c.
Inside(op, c) ==
    /\ 0 <= op.left /\ op.left + op.input.width <= c.width
    /\ 0 <= op.top /\ op.top + op.input.height <= c.height

\* C4: whenever images are placed, in any mode and on either pipeline, each
\* placed image ends at or before the canvas's right and bottom edges.
C4_NoClipping ==
    /\ ServerPlaced
        => \A i \in 1..Len(srv.compositeOps) :
            /\ srv.compositeOps[i].left + srv.compositeOps[i].input.width
                <= srv.canvasWidth
            /\ srv.compositeOps[i].top + srv.compositeOps[i].input.height
                <= srv.canvasHeight
    /\ ClientDrawn
        => \A i \in 1..Len(draws) :
            /\ draws[i].left + draws[i].input.width <= canvas.width
            /\ draws[i].top + draws[i].input.height <= canvas.height

\* Two placements share no pixel.
Disjoint(a, b) ==
    \/ a.left + a.input.width <= b.left
    \/ b.left + b.input.width <= a.left
    \/ a.top + a.input.height <= b.top
    \/ b.top + b.input.height <= a.top

FitsGrid(c, ops) ==
    /\ \A i \in 1..Len(ops) : Inside(ops[i], c)
    /\ \A i, j \in 1..Len(ops) : i # j => Disjoint(ops[i], ops[j])

\* C5: in grid mode with at most rows * cols images, every placed image lies
\* inside the canvas and no two placed images overlap.
C5_GridWithinBounds ==
    /\ (/\ ServerPlaced
        /\ request.alignmentMode = "grid"
        /\ Len(srv.compositeOps) <= srv.gridRows * srv.gridCols)
        => FitsGrid(ServerCanvasSize, srv.compositeOps)
    /\ (/\ ClientDrawn
        /\ alignmentMode = "grid"
        /\ Len(draws) <= gridRows * gridCols)
        => FitsGrid(canvas, draws)

\* Two images fill a grid of two rows and one column on both pipelines.
C5_Witness ==
    /\ alignmentMode = "grid" /\ gridRows = 2 /\ gridCols = 1
    /\ Len(images) = 2
    /\ images[1] # images[2]
    /\ ClientDrawn /\ ServerPlaced /\ response.status = 200
    /\ srv.gridRows = 2 /\ srv.gridCols = 1
    /\ srv.compositeOps[2].top = srv.canvasHeight \div 2
    /\ draws[2].top = canvas.height \div 2

\* C6: a request without images is refused before anything is decoded,
\* resized or created: the route answers 400 'No images provided' having
\* done none of it, and the page's merge action returns without choosing a
\* pipeline.
C6_EmptyRejected ==
    /\ (Len(request.files) = 0 /\ spc \notin {"idle", "received"})
        => /\ spc = "responded"
           /\ response = [status |-> 400, error |-> "No images provided"]
           /\ srv.imageDimensions = <<>>
           /\ srv.processedImages = <<>>
           /\ srv.canvasWidth = 0 /\ srv.canvasHeight = 0
           /\ srv.compositeOps = <<>>
    /\ Len(images) = 0
        => /\ cpc \in {"idle", "returned"}
           /\ ~isProcessing
           /\ canvas = [width |-> 0, height |-> 0]
           /\ draws = <<>>
           /\ mergedImage = Null
           /\ request # PageForm

\* The route has answered a request without images, and the merge button
\* was pressed on a page without images.
C6_Witness ==
    /\ Len(request.files) = 0
    /\ spc = "responded"
    /\ response.status = 400
    /\ Len(images) = 0
    /\ cpc = "returned"

\* A request's parameters are malformed: a resize width or height that is
\* a number but not a positive one, or in grid mode a row or column count
\* that is.
NonPositive(x) == x.t = "number" /\ x.v <= 0
Malformed(form) ==
    \/ NonPositive(parseInt(form.resizeWidth))
    \/ NonPositive(parseInt(form.resizeHeight))
    \/ /\ form.alignmentMode = "grid"
       /\ \/ NonPositive(parseInt(form.gridRows))
          \/ NonPositive(parseInt(form.gridCols))

\* C7: a request with malformed parameters is answered as one without
\* images is, with status 400, as soon as the form is read and before any
\* image is decoded, resized or composited.
C7_MalformedRejected ==
    (Malformed(request) /\ spc \notin {"idle", "received"})
        => /\ spc = "responded"
           /\ response.status = 400
           /\ srv.imageDimensions = <<>>
           /\ srv.processedImages = <<>>
           /\ srv.compositeOps = <<>>

\* The sizes the batch's images get from the manual resize alone, from the
\* alignment alone, and from neither.
ManualOnly(form, nat) ==
    SharpResize(nat,
                IF form.resizeWidth = <<>> THEN Undefined ELSE parseInt(form.resizeWidth),
                IF form.resizeHeight = <<>> THEN Undefined ELSE parseInt(form.resizeHeight),
                TRUE)
AlignedOnly(form, dims, nat) ==
    IF form.alignDimension = "width"
    THEN SharpResize(nat, Num(Max(Widths(dims))), Undefined, FALSE)
    ELSE SharpResize(nat, Undefined, Num(Max(Heights(dims))), FALSE)

ServerProcessed == srv.processedImages # <<>>

\* C8: once the images are processed, an image's size is that of the manual
\* resize alone when a resize width or height is given, that of the
\* alignment resize alone when neither is given and an alignment is set, and
\* its natural size when neither applies.
C8_ResizePrecedence ==
    ServerProcessed =>
        /\ Len(srv.processedImages) = Len(request.files)
        /\ \A i \in 1..Len(request.files) :
            LET nat == request.files[i]
                out == srv.processedImages[i]
            IN  IF request.resizeWidth # <<>> \/ request.resizeHeight # <<>>
                THEN out = ManualOnly(request, nat)
                ELSE IF request.alignDimension \in {"width", "height"}
                THEN out = AlignedOnly(request, request.files, nat)
                ELSE out = nat

\* A manual resize and an alignment are both asked for, the images are
\* processed, and an image's size is not what the alignment would give.
C8_Witness ==
    /\ ServerProcessed
    /\ request.resizeWidth # <<>>
    /\ request.alignDimension = "width"
    /\ Len(request.files) >= 2
    /\ \E i \in 1..Len(request.files) :
        /\ srv.processedImages[i] = request.files[i]
        /\ srv.processedImages[i] # AlignedOnly(request, request.files, request.files[i])
    /\ spc = "responded" /\ response.status = 200

\* C9: under a manual resize no image ends wider or higher than it was, nor
\* wider than the width asked for, nor higher than the height asked for; and
\* an image ends at its natural size when the box asked for is at least its
\* natural size on every axis given.
C9_NoEnlargement ==
    (ServerProcessed /\ (request.resizeWidth # <<>> \/ request.resizeHeight # <<>>))
        => \A i \in 1..Len(request.files) :
            LET nat == request.files[i]
                out == srv.processedImages[i]
                w == parseInt(request.resizeWidth)
                h == parseInt(request.resizeHeight)
            IN  /\ out.width <= nat.width
                /\ out.height <= nat.height
                /\ out.width >= 1 /\ out.height >= 1
                /\ request.resizeWidth # <<>> => out.width <= w.v
                /\ request.resizeHeight # <<>> => out.height <= h.v
                /\ (/\ request.resizeWidth # <<>> => w.v >= nat.width
                    /\ request.resizeHeight # <<>> => h.v >= nat.height)
                    => out = nat

\* A batch was resized to a box that holds one image, which kept its size,
\* and is smaller than another, which shrank.
C9_Witness ==
    /\ ServerProcessed
    /\ request.resizeWidth # <<>> /\ request.resizeHeight # <<>>
    /\ spc = "responded" /\ response.status = 200
    /\ \E i, j \in 1..Len(request.files) :
        /\ parseInt(request.resizeWidth).v > request.files[i].width
        /\ parseInt(request.resizeHeight).v >= request.files[i].height
        /\ srv.processedImages[i] = request.files[i]
        /\ parseInt(request.resizeHeight).v < request.files[j].height
        /\ srv.processedImages[j].height = parseInt(request.resizeHeight).v
        /\ srv.processedImages[j].width < request.files[j].width

\* C10: with an alignment to the largest width and no manual resize, every
\* processed image is as wide as the widest natural image, and in vertical
\* mode the canvas is that wide and as high as the processed images
\* together; alike, with an alignment to the largest height every processed
\* image is as high as the highest natural image.
C10_AlignToMax ==
    (ServerProcessed /\ request.resizeWidth = <<>> /\ request.resizeHeight = <<>>)
        => /\ request.alignDimension = "width"
                => /\ \A i \in 1..Len(request.files) :
                        srv.processedImages[i].width = Max(Widths(request.files))
                   /\ (ServerPlaced /\ request.alignmentMode = "vertical")
                        => /\ srv.canvasWidth = Max(Widths(request.files))
                           /\ srv.canvasHeight = Sum(Heights(srv.processedImages))
           /\ request.alignDimension = "height"
                => \A i \in 1..Len(request.files) :
                        srv.processedImages[i].height = Max(Heights(request.files))

\* Images of natural widths 1 and 2 were aligned to the largest width and
\* merged in a column: the narrow one was enlarged, its height with it.
C10_Witness ==
    /\ ServerPlaced /\ response.status = 200
    /\ request.alignmentMode = "vertical"
    /\ request.alignDimension = "width"
    /\ request.resizeWidth = <<>> /\ request.resizeHeight = <<>>
    /\ Len(request.files) = 2
    /\ request.files[1] = [width |-> 1, height |-> 2]
    /\ request.files[2].width = 2
    /\ srv.processedImages[1] = [width |-> 2, height |-> 4]
    /\ srv.canvasHeight = 4 + request.files[2].height

\* C11: the route's answer to a request with images is a success only when
\* no buffer was rejected and every image was sized, processed and placed,
\* in order; a request with a rejected buffer, or whose resize, composite
\* or encoding failed, is answered with the error status 500.
C11_AllOrNothing ==
    (spc = "responded" /\ Len(request.files) > 0)
        => /\ response.status \in {200, 500}
           /\ srv.rejected # {} => response.status = 500
           /\ response.status = 200
                => /\ srv.rejected = {}
                   /\ srv.imageDimensions = request.files
                   /\ Len(srv.processedImages) = Len(request.files)
                   /\ Len(srv.compositeOps) = Len(request.files)
                   /\ \A i \in 1..Len(request.files) :
                        srv.compositeOps[i].input = srv.processedImages[i]
           /\ (\/ Len(srv.processedImages) < Len(request.files)
               \/ Len(srv.compositeOps) < Len(request.files))
                => response.status = 500

\* The second of three buffers was rejected and the request was answered
\* with the error.
C11_Witness ==
    /\ spc = "responded"
    /\ Len(request.files) = 3
    /\ srv.rejected = {2}
    /\ response.status = 500
    /\ srv.processedImages = <<>>
    /\ srv.compositeOps = <<>>

\* C12: when the browser has laid out the page's images and the route has
\* laid out the same images for the same mode, rows and columns, with no
\* resize and no alignment, both computed the same canvas and the same
\* offset for every image.
C12_SameLayout ==
    (/\ ClientDrawn
     /\ ServerPlaced
     /\ request.files = images
     /\ request.alignmentMode = alignmentMode
     /\ resizeWidth = EmptyString /\ resizeHeight = EmptyString
     /\ alignDimension = "none")
        => /\ srv.gridRows = gridRows
           /\ srv.gridCols = gridCols
           /\ srv.processedImages = images
           /\ srv.canvasWidth = canvas.width
           /\ srv.canvasHeight = canvas.height
           /\ Len(srv.compositeOps) = Len(draws)
           /\ \A i \in 1..Len(draws) :
                /\ srv.compositeOps[i].left = draws[i].left
                /\ srv.compositeOps[i].top = draws[i].top

\* Both pipelines laid out three images of two sizes in a grid of one row
\* and two columns.
C12_Witness ==
    /\ ClientDrawn /\ ServerPlaced /\ response.status = 200
    /\ request.files = images
    /\ alignmentMode = "grid" /\ gridRows = 1 /\ gridCols = 2
    /\ Len(images) = 3
    /\ images[1] # images[2]
    /\ canvas.width # canvas.height
    /\ draws[3].top > 0


\* The area of the canvas the page's images need, unresized.
MergeArea ==
    CASE alignmentMode = "horizontal" ->
            Sum(Widths(images)) * Max(Heights(images))
      [] alignmentMode = "vertical" ->
            Max(Widths(images)) * Sum(Heights(images))
      [] OTHER ->
            (Max(Widths(images)) * gridCols) * (Max(Heights(images)) * gridRows)

\* What the merge asks of the server.
ResizeOrAlignment ==
    \/ alignDimension # "none"
    \/ resizeWidth # EmptyString
    \/ resizeHeight # EmptyString
ServerRequired == MergeArea > MAX_CANVAS_AREA \/ ResizeOrAlignment

\* A step that invokes the server route.
Invoked == spc # "received" /\ spc' = "received" /\ request' = PageForm

\* C13: the server route is invoked exactly when the canvas area exceeds
\* 268435456, an alignment or a resize is requested, or the client pipeline
\* was attempted and failed; the client pipeline is never attempted when a
\* resize or an alignment is requested; one merge invokes the server at most
\* once; a failure of the client pipeline alone shows no error.
C13_DispatchPolicy ==
    [][ /\ Invoked => ((cpc = "started" /\ ServerRequired)
                        \/ (cpc = "client" /\ mergedImage' = mergedImage))
        /\ (cpc = "started" /\ cpc' # cpc)
             => IF ServerRequired
                THEN (Invoked /\ cpc' = "fetching")
                ELSE (~Invoked /\ cpc' = "client")
        /\ cpc' = "client" => ~ResizeOrAlignment
        /\ (cpc = "client" /\ cpc' # cpc)
             => /\ alerts' = alerts
                /\ \/ (cpc' = "done" /\ mergedImage' # mergedImage /\ ~Invoked)
                   \/ (cpc' = "fetching" /\ mergedImage' = mergedImage /\ Invoked)
        /\ cpc \in {"fetching", "done", "returned"} => (~Invoked /\ request' = request)
        /\ alerts' # alerts => cpc = "fetching"
      ]_vars

\* Two very large images side by side, no resize and no alignment: the server
\* merged them, the client pipeline was never run.
C13_Witness ==
    /\ cpc = "done"
    /\ images = <<HugeSize, HugeSize>>
    /\ alignmentMode = "horizontal"
    /\ ~ResizeOrAlignment
    /\ MergeArea > MAX_CANVAS_AREA
    /\ draws = <<>>
    /\ mergedImage # Null /\ mergedImage.by = "server"
    /\ mergedImage.width = 2 * HugeSize.width /\ mergedImage.height = HugeSize.height


\* A step that ends a merge.
Completes == cpc # "done" /\ cpc' = "done"

\* C14: every merge of a non-empty list runs to its end: isProcessing is
\* true from its start to its end and false afterwards; it ends either with
\* the result set, once, and nothing reported, or with one error reported and
\* the result left as it was - also when the client pipeline failed and the
\* server fallback failed after it.
C14_MergeCompletes ==
    /\ [](cpc \in {"started", "client", "fetching"} => isProcessing)
    /\ [](cpc = "done" => ~isProcessing)
    /\ [][ /\ Completes
               => \/ (mergedImage' # mergedImage /\ mergedImage' # Null /\ alerts' = alerts)
                  \/ (mergedImage' = mergedImage /\ Len(alerts') = Len(alerts) + 1)
           /\ ~Completes => (mergedImage' = mergedImage /\ alerts' = alerts)
           /\ (cpc = "idle" /\ cpc' # cpc /\ images # <<>>) => cpc' = "started"
           /\ cpc = "done" => cpc' = "done"
         ]_vars
    /\ (cpc = "started") ~> (cpc = "done")

\* The client pipeline drew the images and failed to render them, the server
\* fallback failed too: one error is shown, the earlier result is still there.
C14_Witness ==
    /\ cpc = "done"
    /\ draws # <<>>
    /\ spc = "responded" /\ response.status = 500
    /\ alerts = <<response.error>>
    /\ mergedImage = Earlier
    /\ ~isProcessing


\* The images of a selection: its files of an image type whose load succeeds.
RECURSIVE Loaded(_)
Loaded(fs) ==
    IF fs = <<>> THEN <<>>
    ELSE IF IsImageType(Head(fs).type) /\ Head(fs).loads
         THEN <<Head(fs).size>> \o Loaded(Tail(fs))
         ELSE Loaded(Tail(fs))

\* C15: every file selection completes, whatever the outcome of each load
\* (a selection under way can always take a further step), and once it has
\* completed, the selected files of an image type whose load succeeded are
\* the last images of the list, in selection order - a failed load keeps no
\* other file out.
C15_SelectionCompletes ==
    /\ fpc \in {"loop", "loading"} => ENABLED SelectStep
    /\ fpc = "done"
         => /\ Len(images) >= Len(Loaded(files.items))
            /\ SubSeq(images, Len(images) - Len(Loaded(files.items)) + 1, Len(images))
                 = Loaded(files.items)

====
